---- MODULE Spec2Model ----
(***************************************************************************)
(* Model of cwl_inspector.py: the path resolver (inspect_position), the    *)
(* exception-swallowing lookup (inspect_get), the output locator           *)
(* (ls_outputs_for_command) and the query dispatcher (inspect), run as a   *)
(* sequence of queries against one parsed document and one environment.    *)
(*                                                                         *)
(* Python strings are sequences of one-character strings, so that          *)
(* str.split, str.startswith, re.match, os.path.basename, os.path.join     *)
(* and sorted() are computed character by character.  The alphabet has no  *)
(* newline character.                                                      *)
(***************************************************************************)
EXTENDS Integers, Sequences, FiniteSets, TLC

VARIABLES heap, env, files, pos, res

vars == <<heap, env, files, pos, res>>

(* ---------------- bounds ---------------- *)

\* largest number of elements of the document's inputs list
MaxInputs == 2

(* ---------------- string literals of the source ---------------- *)

s_arguments ==
    <<"a", "r", "g", "u", "m", "e", "n", "t", "s">>
s_baseCommand ==
    <<"b", "a", "s", "e", "C", "o", "m", "m", "a", "n", "d">>
s_basecommand ==
    <<"b", "a", "s", "e", "c", "o", "m", "m", "a", "n", "d">>
s_class ==
    <<"c", "l", "a", "s", "s">>
s_class_ ==
    <<"c", "l", "a", "s", "s", "_">>
s_cwlVersion ==
    <<"c", "w", "l", "V", "e", "r", "s", "i", "o", "n">>
s_doc ==
    <<"d", "o", "c">>
s_hints ==
    <<"h", "i", "n", "t", "s">>
s_id ==
    <<"i", "d">>
s_inputs ==
    <<"i", "n", "p", "u", "t", "s">>
s_label ==
    <<"l", "a", "b", "e", "l">>
s_outputs ==
    <<"o", "u", "t", "p", "u", "t", "s">>
s_permanentFailCodes ==
    <<"p", "e", "r", "m", "a", "n", "e", "n", "t", "F", "a", "i", "l", "C", "o", "d", "e", "s">>
s_requirements ==
    <<"r", "e", "q", "u", "i", "r", "e", "m", "e", "n", "t", "s">>
s_stderr ==
    <<"s", "t", "d", "e", "r", "r">>
s_stdin ==
    <<"s", "t", "d", "i", "n">>
s_stdout ==
    <<"s", "t", "d", "o", "u", "t">>
s_successCodes ==
    <<"s", "u", "c", "c", "e", "s", "s", "C", "o", "d", "e", "s">>
s_temporaryFailCodes ==
    <<"t", "e", "m", "p", "o", "r", "a", "r", "y", "F", "a", "i", "l", "C", "o", "d", "e", "s">>
s_steps ==
    <<"s", "t", "e", "p", "s">>
s_inputBinding ==
    <<"i", "n", "p", "u", "t", "B", "i", "n", "d", "i", "n", "g">>
s_outputBinding ==
    <<"o", "u", "t", "p", "u", "t", "B", "i", "n", "d", "i", "n", "g">>
s_position ==
    <<"p", "o", "s", "i", "t", "i", "o", "n">>
s_glob ==
    <<"g", "l", "o", "b">>
s_type ==
    <<"t", "y", "p", "e">>
s_nosuch ==
    <<"n", "o", "s", "u", "c", "h">>
s_CommandLineTool ==
    <<"C", "o", "m", "m", "a", "n", "d", "L", "i", "n", "e", "T", "o", "o", "l">>
s_Workflow ==
    <<"W", "o", "r", "k", "f", "l", "o", "w">>
s_ExpressionTool ==
    <<"E", "x", "p", "r", "e", "s", "s", "i", "o", "n", "T", "o", "o", "l">>
s_commandline ==
    <<"c", "o", "m", "m", "a", "n", "d", "l", "i", "n", "e">>
s_File ==
    <<"F", "i", "l", "e">>
s_keys_open ==
    <<"k", "e", "y", "s", "(">>
s_commandline_open ==
    <<"c", "o", "m", "m", "a", "n", "d", "l", "i", "n", "e", "(">>
s_ls_open ==
    <<"l", "s", "(">>
s_ls_outputs ==
    <<"l", "s", "(", ".", "o", "u", "t", "p", "u", "t", "s", ".">>
s_ls_steps ==
    <<"l", "s", "(", ".", "s", "t", "e", "p", "s", ".", ")">>
s_randomized_filename ==
    <<"$", "r", "a", "n", "d", "o", "m", "i", "z", "e", "d", "_", "f", "i", "l", "e", "n", "a", "m", "e">>
s_prefix ==
    <<"p", "r", "e", "f", "i", "x">>
s_DockerRequirement ==
    <<"D", "o", "c", "k", "e", "r", "R", "e", "q", "u", "i", "r", "e", "m", "e", "n", "t">>

\* code points of the characters (Python compares strings by code point)
Ord ==
    " " :> 32 @@ "!" :> 33 @@ "#" :> 35 @@ "$" :> 36 @@ "%" :> 37 @@ "&" :> 38 @@
    "'" :> 39 @@ "(" :> 40 @@ ")" :> 41 @@ "*" :> 42 @@ "+" :> 43 @@ "," :> 44 @@
    "-" :> 45 @@ "." :> 46 @@ "/" :> 47 @@ "0" :> 48 @@ "1" :> 49 @@ "2" :> 50 @@
    "3" :> 51 @@ "4" :> 52 @@ "5" :> 53 @@ "6" :> 54 @@ "7" :> 55 @@ "8" :> 56 @@
    "9" :> 57 @@ ":" :> 58 @@ ";" :> 59 @@ "<" :> 60 @@ "=" :> 61 @@ ">" :> 62 @@
    "?" :> 63 @@ "@" :> 64 @@ "A" :> 65 @@ "B" :> 66 @@ "C" :> 67 @@ "D" :> 68 @@
    "E" :> 69 @@ "F" :> 70 @@ "G" :> 71 @@ "H" :> 72 @@ "I" :> 73 @@ "J" :> 74 @@
    "K" :> 75 @@ "L" :> 76 @@ "M" :> 77 @@ "N" :> 78 @@ "O" :> 79 @@ "P" :> 80 @@
    "Q" :> 81 @@ "R" :> 82 @@ "S" :> 83 @@ "T" :> 84 @@ "U" :> 85 @@ "V" :> 86 @@
    "W" :> 87 @@ "X" :> 88 @@ "Y" :> 89 @@ "Z" :> 90 @@ "[" :> 91 @@ "]" :> 93 @@
    "^" :> 94 @@ "_" :> 95 @@ "a" :> 97 @@ "b" :> 98 @@ "c" :> 99 @@
    "d" :> 100 @@ "e" :> 101 @@ "f" :> 102 @@ "g" :> 103 @@ "h" :> 104 @@ "i" :> 105 @@
    "j" :> 106 @@ "k" :> 107 @@ "l" :> 108 @@ "m" :> 109 @@ "n" :> 110 @@ "o" :> 111 @@
    "p" :> 112 @@ "q" :> 113 @@ "r" :> 114 @@ "s" :> 115 @@ "t" :> 116 @@ "u" :> 117 @@
    "v" :> 118 @@ "w" :> 119 @@ "x" :> 120 @@ "y" :> 121 @@ "z" :> 122 @@ "{" :> 123 @@
    "|" :> 124 @@ "}" :> 125 @@ "~" :> 126

(* ---------------- Python values ---------------- *)

\* a value: None, a str, an int, a list of values, or a reference to an
\* object (a node of the parsed document) held in the heap
None == [t |-> "none", s |-> <<>>, n |-> 0, a |-> 0, items |-> <<>>]

Str(s) == [t |-> "str", s |-> s, n |-> 0, a |-> 0, items |-> <<>>]

Num(n) == [t |-> "int", s |-> <<>>, n |-> n, a |-> 0, items |-> <<>>]

Obj(a) == [t |-> "obj", s |-> <<>>, n |-> 0, a |-> a, items |-> <<>>]

List(items) == [t |-> "list", s |-> <<>>, n |-> 0, a |-> 0, items |-> items]

\* bool(v): None, "", 0 and [] are falsy, an object is truthy
Truthy(v) ==
    CASE v.t = "none" -> FALSE
      [] v.t = "str" -> v.s # <<>>
      [] v.t = "int" -> v.n # 0
      [] v.t = "list" -> v.items # <<>>
      [] OTHER -> TRUE

\* the outcome of a call: a returned value or a raised exception
Ok(v) == [kind |-> "ok", val |-> v, exc |-> "", msg |-> "", arg |-> <<>>]

Raise(exc, msg, arg) == [kind |-> "err", val |-> None, exc |-> exc, msg |-> msg, arg |-> arg]

\* no call has been made yet
NoCall == [kind |-> "none", val |-> None, exc |-> "", msg |-> "", arg |-> <<>>]

\* raise Exception(f'No such field {pos}')
NoSuchField(p) == Raise("Exception", "No such field", p)

\* attribute access on a value that has no such attribute
AttributeError == Raise("AttributeError", "", <<>>)

\* an operation applied to a value of the wrong type
TypeError == Raise("TypeError", "", <<>>)

(* ---------------- obj.__dict__ ---------------- *)

\* an object's __dict__ is a sequence of [k, v] entries in insertion order
HasAttr(d, k) == \E i \in 1..Len(d) : d[i].k = k

GetAttr(d, k) == d[CHOOSE i \in 1..Len(d) : d[i].k = k].v

\* setattr(obj, k, v): replace the entry, or append a new one
SetAttr(d, k, v) ==
    IF HasAttr(d, k)
    THEN [i \in 1..Len(d) |-> IF d[i].k = k THEN [k |-> k, v |-> v] ELSE d[i]]
    ELSE Append(d, [k |-> k, v |-> v])

Keys(d) == [i \in 1..Len(d) |-> d[i].k]

(* ---------------- string functions ---------------- *)

StartsWith(s, p) == Len(s) >= Len(p) /\ SubSeq(s, 1, Len(p)) = p

EndsWith(s, p) == Len(s) >= Len(p) /\ SubSeq(s, Len(s) - Len(p) + 1, Len(s)) = p

\* s[1:]
Tail1(s) == IF s = <<>> THEN <<>> ELSE Tail(s)

RECURSIVE Split(_, _)
\* s.split(c)
Split(s, c) ==
    IF \A i \in 1..Len(s) : s[i] # c
    THEN <<s>>
    ELSE LET i == CHOOSE j \in 1..Len(s) : s[j] = c /\ \A k \in 1..(j - 1) : s[k] # c
         IN  <<SubSeq(s, 1, i - 1)>> \o Split(SubSeq(s, i + 1, Len(s)), c)

Digits == {"0", "1", "2", "3", "4", "5", "6", "7", "8", "9"}

\* re.match('^\d+$', po)
IsIndex(po) == po # <<>> /\ \A i \in 1..Len(po) : po[i] \in Digits

RECURSIVE ToInt(_)
\* int(po)
ToInt(po) ==
    IF po = <<>> THEN 0
    ELSE 10 * ToInt(SubSeq(po, 1, Len(po) - 1)) + (Ord[po[Len(po)]] - Ord["0"])

\* os.path.basename(p): what follows the last "/"
Basename(p) ==
    IF \A i \in 1..Len(p) : p[i] # "/"
    THEN p
    ELSE LET i == CHOOSE j \in 1..Len(p) : p[j] = "/" /\ \A k \in (j + 1)..Len(p) : p[k] # "/"
         IN  SubSeq(p, i + 1, Len(p))

\* os.path.join(a, b)
PathJoin(a, b) ==
    IF StartsWith(b, <<"/">>) THEN b
    ELSE IF a = <<>> \/ EndsWith(a, <<"/">>) THEN a \o b
    ELSE a \o <<"/">> \o b

RECURSIVE StrLess(_, _)
\* a < b on str
StrLess(a, b) ==
    IF b = <<>> THEN FALSE
    ELSE IF a = <<>> THEN TRUE
    ELSE IF Ord[Head(a)] # Ord[Head(b)] THEN Ord[Head(a)] < Ord[Head(b)]
    ELSE StrLess(Tail(a), Tail(b))

RECURSIVE Insert(_, _)
Insert(x, sorted) ==
    IF sorted = <<>> THEN <<x>>
    ELSE IF StrLess(x, Head(sorted)) THEN <<x>> \o sorted
    ELSE <<Head(sorted)>> \o Insert(x, Tail(sorted))

RECURSIVE InsertionSort(_)
InsertionSort(xs) ==
    IF xs = <<>> THEN <<>>
    ELSE Insert(xs[Len(xs)], InsertionSort(SubSeq(xs, 1, Len(xs) - 1)))

\* a bug: the list is returned in the order it was built
Unsorted(xs) == xs

\* sorted(xs) on a list of str: ascending, stable
Sorted(xs) == InsertionSort(xs)

(* ---------------- inspect_position ---------------- *)

\* a bug: the whole identifier is compared
IdMatchesFull(id, po) == id = po

\* os.path.basename(f.id) == po
IdMatches(id, po) == Basename(id) = po

RECURSIVE FindField(_, _, _, _)
\* next((f for f in cur_obj if os.path.basename(f.id) == po), None):
\* the elements are visited in list order until one matches
FindField(h, items, po, i) ==
    IF i > Len(items) THEN Ok(None)
    ELSE LET f == items[i] IN
         IF f.t # "obj" THEN AttributeError
         ELSE IF ~HasAttr(h[f.a], s_id) THEN AttributeError
         ELSE IF GetAttr(h[f.a], s_id).t # "str" THEN TypeError
         ELSE IF IdMatches(GetAttr(h[f.a], s_id).s, po) THEN Ok(f)
         ELSE FindField(h, items, po, i + 1)

\* if po == 'class': po = 'class_'
FieldAlias(po) == IF po = s_class THEN s_class_ ELSE po

\* po == 'basecommand' and isinstance(val, str)
IsScalarBaseCommand(po, val) == po = s_basecommand /\ val.t = "str"

\* a bug: the default is written whether or not a position is declared
AlwaysNeedsDefaultPosition(d) == TRUE

\* 'position' not in cur_obj.inputBinding.__dict__
NeedsDefaultPosition(d) == ~HasAttr(d, s_position)

\* a bug: setattr(cur_obj, 'position', 0), the default lands on the parent
SetDefaultPositionOnParent(h, a) ==
    LET n == CHOOSE m \in DOMAIN h :
                 HasAttr(h[m], s_inputBinding) /\ GetAttr(h[m], s_inputBinding) = Obj(a)
    IN  [h EXCEPT ![n] = SetAttr(h[n], s_position, Num(0))]

\* setattr(cur_obj.inputBinding, 'position', 0)
SetDefaultPosition(h, a) == [h EXCEPT ![a] = SetAttr(h[a], s_position, Num(0))]

RECURSIVE Walk(_, _, _, _, _)
\* the loop of inspect_position over the segments of pos, from segment i on
Walk(h, cur, segs, i, p) ==
    IF i > Len(segs) THEN [heap |-> h, out |-> Ok(cur)]
    ELSE LET po == segs[i] IN
      IF IsIndex(po)
      THEN IF cur.t # "list" \/ ToInt(po) >= Len(cur.items)
           THEN [heap |-> h, out |-> NoSuchField(p)]
           ELSE Walk(h, cur.items[ToInt(po) + 1], segs, i + 1, p)
      ELSE IF cur.t = "list"
      THEN LET field == FindField(h, cur.items, po, 1) IN
           IF field.kind = "err" THEN [heap |-> h, out |-> field]
           ELSE IF field.val = None THEN [heap |-> h, out |-> NoSuchField(p)]
           ELSE Walk(h, field.val, segs, i + 1, p)
      ELSE LET po2 == FieldAlias(po) IN
           IF cur.t # "obj" THEN [heap |-> h, out |-> AttributeError]
           ELSE IF ~HasAttr(h[cur.a], po2) THEN [heap |-> h, out |-> NoSuchField(p)]
           ELSE LET val == GetAttr(h[cur.a], po2) IN
                IF IsScalarBaseCommand(po2, val)
                THEN Walk(h, List(<<val>>), segs, i + 1, p)
                ELSE IF po2 = s_inputBinding
                THEN IF val.t # "obj" THEN [heap |-> h, out |-> AttributeError]
                     ELSE IF NeedsDefaultPosition(h[val.a])
                     THEN Walk(SetDefaultPosition(h, val.a), val, segs, i + 1, p)
                     ELSE Walk(h, val, segs, i + 1, p)
                ELSE Walk(h, val, segs, i + 1, p)

\* inspect_position(cwl, pos): the heap after the call and its outcome;
\* the root document cwl is the object at address 1
inspect_position(h, p) ==
    IF p = <<".">> THEN [heap |-> h, out |-> Ok(Obj(1))]
    ELSE Walk(h, Obj(1), Split(Tail1(p), "."), 1, p)

\* inspect_get(cwl, pos, default): every exception is swallowed
inspect_get(h, p, default) ==
    LET r == inspect_position(h, p) IN
    [heap |-> r.heap, val |-> IF r.out.kind = "ok" THEN r.out.val ELSE default]

(* ---------------- stubs ---------------- *)

\* to_command(cwl, env): the body is `pass`, the call returns None
to_command(h, e) == Ok(None)

\* to_step_command(cwl, obj, env): the body is `pass`, the call returns None
to_step_command(h, obj, e) == Ok(None)

\* instantiate_context(cwl, name, env): returns name
instantiate_context(h, name, e) == name

(* ---------------- ls_outputs_for_command ---------------- *)

\* glob.escape(pat) == pat: pat has none of the characters glob.escape quotes
NoMagic(pat) == \A i \in 1..Len(pat) : pat[i] \notin {"*", "?", "["}

\* glob.glob(path) for a path without magic characters
Glob(fs, path) == IF path \in fs THEN List(<<Str(path)>>) ELSE List(<<>>)

\* raise '...': raising a str is itself a TypeError
RaiseStr == Raise("TypeError", "exceptions must derive from BaseException", <<>>)

\* the stdout branch of ls_outputs_for_command (lines 102-104)
LsStdout(h, e) ==
    LET g == inspect_get(h, <<".">> \o s_stdout, Str(s_randomized_filename))
        fname == instantiate_context(g.heap, g.val, e)
        directory == e.runtime.outdir
    IN  [heap |-> g.heap,
         out |-> IF directory = None THEN Ok(fname)
                 ELSE IF fname.t # "str" THEN TypeError
                 ELSE Ok(Str(PathJoin(directory.s, fname.s)))]

\* the outputBinding branch of ls_outputs_for_command (lines 106-115)
LsBinding(h, p, e, fs) ==
    LET g == inspect_get(h, p \o <<".">> \o s_outputBinding, None)
        oBinding == g.val
        directory == e.runtime.outdir
    IN  [heap |-> g.heap,
         out |-> IF oBinding = None THEN RaiseStr
                 ELSE IF oBinding.t # "obj" THEN AttributeError
                 ELSE IF ~HasAttr(g.heap[oBinding.a], s_glob) THEN Ok(None)
                 ELSE LET pat == instantiate_context(g.heap, GetAttr(g.heap[oBinding.a], s_glob), e) IN
                      IF pat.t # "str" THEN TypeError
                      ELSE IF NoMagic(pat.s)
                      THEN Ok(Glob(fs, IF directory = None THEN pat.s
                                       ELSE PathJoin(directory.s, pat.s)))
                      ELSE Ok(pat)]

ls_outputs_for_command(h, p, e, fs) ==
    LET g1 == inspect_get(h, p, None) IN
    IF ~Truthy(g1.val)
    THEN [heap |-> g1.heap, out |-> Raise("Exception", "Invalid pos", p)]
    ELSE LET g2 == inspect_get(g1.heap, p \o <<".">> \o s_type, Str(<<>>)) IN
         IF g2.val = Str(s_stdout)
         THEN LsStdout(g2.heap, e)
         ELSE LsBinding(g2.heap, p, e, fs)

(* ---------------- inspect ---------------- *)

\* re.match('^<open>(.+)\)$', pos): whether it matches, and group(1)
ReMatches(p, open) == StartsWith(p, open) /\ EndsWith(p, <<")">>) /\ Len(p) >= Len(open) + 2

ReGroup(p, open) == SubSeq(p, Len(open) + 1, Len(p) - 1)

\* cwl.class_
ClassOf(h) == GetAttr(h[1], s_class_)

RECURSIVE IdsOf(_, _, _)
\* [f.id for f in obj if 'id' in f.__dict__], from element i on
IdsOf(h, items, i) ==
    IF i > Len(items) THEN Ok(List(<<>>))
    ELSE LET f == items[i]
             rest == IdsOf(h, items, i + 1)
         IN  IF f.t # "obj" THEN AttributeError
             ELSE IF rest.kind = "err" THEN rest
             ELSE IF HasAttr(h[f.a], s_id)
             THEN Ok(List(<<GetAttr(h[f.a], s_id)>> \o rest.val.items))
             ELSE rest

\* sorted(vals): str compare with str only
SortedValues(vals) ==
    IF \A i \in 1..Len(vals) : vals[i].t = "str"
    THEN LET ss == Sorted([i \in 1..Len(vals) |-> vals[i].s])
         IN  Ok(List([i \in 1..Len(ss) |-> Str(ss[i])]))
    ELSE IF Len(vals) <= 1 THEN Ok(List(vals))
    ELSE TypeError

\* the keys(...) branch of inspect (lines 123-128)
InspectKeysOf(h, p) ==
    IF ~ReMatches(p, s_keys_open) THEN [heap |-> h, out |-> AttributeError]
    ELSE LET r == inspect_position(h, ReGroup(p, s_keys_open))
             obj == r.out.val
         IN  IF r.out.kind = "err" THEN r
             ELSE IF obj.t = "list"
             THEN LET ids == IdsOf(r.heap, obj.items, 1) IN
                  [heap |-> r.heap,
                   out |-> IF ids.kind = "err" THEN ids ELSE SortedValues(ids.val.items)]
             ELSE IF obj.t # "obj" THEN [heap |-> r.heap, out |-> AttributeError]
             ELSE [heap |-> r.heap, out |-> SortedValues([i \in 1..Len(r.heap[obj.a]) |-> Str(Keys(r.heap[obj.a])[i])])]

\* inspect(cwl, pos, env): the heap after the call and its outcome
inspect(h, p, e, fs) ==
    IF StartsWith(p, <<".">>) THEN inspect_position(h, p)
    ELSE IF StartsWith(p, s_keys_open) THEN InspectKeysOf(h, p)
    ELSE IF p = s_commandline
    THEN [heap |-> h,
          out |-> IF ClassOf(h) # Str(s_CommandLineTool)
                  THEN Raise("Exception", "commandline for Workflow needs an argument", <<>>)
                  ELSE to_command(h, e)]
    ELSE IF StartsWith(p, s_commandline_open)
    THEN [heap |-> h,
          out |-> IF ClassOf(h) # Str(s_Workflow)
                  THEN Raise("Exception", "commandline for CommandLineTool does not need an argument", <<>>)
                  ELSE IF ~ReMatches(p, s_commandline_open) THEN AttributeError
                  ELSE to_step_command(h, ReGroup(p, s_commandline_open), e)]
    ELSE IF StartsWith(p, s_ls_outputs)
    THEN IF ClassOf(h) = Str(s_Workflow)
         THEN [heap |-> h, out |-> Raise("Exception", "Not yet implemented it for Workflow", <<>>)]
         ELSE IF ClassOf(h) = Str(s_CommandLineTool)
         THEN IF ~ReMatches(p, s_ls_open) THEN [heap |-> h, out |-> AttributeError]
              ELSE ls_outputs_for_command(h, ReGroup(p, s_ls_open), e, fs)
         ELSE [heap |-> h, out |-> Raise("Exception", "Unsupported class", ClassOf(h).s)]
    ELSE IF StartsWith(p, s_ls_steps)
    THEN [heap |-> h,
          out |-> IF ClassOf(h) # Str(s_Workflow)
                  THEN Raise("Exception", "ls outputs for steps does not work for CommandLineTool", <<>>)
                  ELSE Raise("Exception", "Not yet implemented", <<>>)]
    ELSE [heap |-> h, out |-> Raise("Exception", "Unknown pos", p)]

(* ---------------- the parsed document ---------------- *)

E(k, v) == [k |-> k, v |-> v]

\* the kinds of input parameter a document may declare: its id, its label,
\* and its inputBinding ("none": null, "nopos": a binding without a
\* position, "pos": a binding with an explicit position)
InputKinds ==
    << [id |-> <<"d", "/", "i", "n">>, label |-> <<"I">>, binding |-> "nopos"],
       [id |-> <<"d", "/", "7">>, label |-> <<"S">>, binding |-> "pos"],
       [id |-> <<"d", "/", "a", ".", "b">>, label |-> <<"D">>, binding |-> "none"] >>

\* heap addresses: the root document is 1; input kind k is 10k, its binding 10k+1
InputAddr(k) == 10 * k

BindingAddr(k) == 10 * k + 1

\* the inputs lists: 1..MaxInputs distinct input kinds, in each cyclic order
InputLists ==
    LET n == Len(InputKinds) IN
    {[i \in 1..len |-> ((first + i - 2) % n) + 1] :
        first \in 1..n, len \in 1..(IF MaxInputs < n THEN MaxInputs ELSE n)}

InputNode(k) ==
    << E(s_id, Str(InputKinds[k].id)),
       E(s_label, Str(InputKinds[k].label)),
       E(s_inputBinding, IF InputKinds[k].binding = "none" THEN None ELSE Obj(BindingAddr(k))),
       E(s_type, Str(s_File)) >>

BindingNode(k) ==
    IF InputKinds[k].binding = "pos"
    THEN << E(s_position, Num(2)), E(s_prefix, Str(<<"-", "x">>)) >>
    ELSE << E(s_prefix, Str(<<"-", "x">>)) >>

\* the outputs list is the same in every tool document:
\*   out: type stdout;  f: glob "o";  g: glob "*";  h: outputBinding null;
\*   k: no outputBinding attribute;  m: an outputBinding without glob
OutputNodes ==
    (40 :> << E(s_id, Str(<<"d", "/", "o", "u", "t">>)), E(s_type, Str(s_stdout)), E(s_outputBinding, None) >>) @@
    (41 :> << E(s_id, Str(<<"d", "/", "f">>)), E(s_type, Str(s_File)), E(s_outputBinding, Obj(51)) >>) @@
    (42 :> << E(s_id, Str(<<"d", "/", "g">>)), E(s_type, Str(s_File)), E(s_outputBinding, Obj(52)) >>) @@
    (43 :> << E(s_id, Str(<<"d", "/", "h">>)), E(s_type, Str(s_File)), E(s_outputBinding, None) >>) @@
    (44 :> << E(s_id, Str(<<"d", "/", "k">>)), E(s_type, Str(s_File)) >>) @@
    (45 :> << E(s_id, Str(<<"d", "/", "m">>)), E(s_type, Str(s_File)), E(s_outputBinding, Obj(55)) >>) @@
    (51 :> << E(s_glob, Str(<<"o">>)) >>) @@
    (52 :> << E(s_glob, Str(<<"*">>)) >>) @@
    (55 :> << E(s_doc, None) >>)

OutputList == List(<<Obj(40), Obj(41), Obj(42), Obj(43), Obj(44), Obj(45)>>)

\* one requirement, an object that declares no id
RequirementNodes == (5 :> << E(s_class_, Str(s_DockerRequirement)) >>)

Reverse(s) == [i \in 1..Len(s) |-> s[Len(s) + 1 - i]]

\* the root of a CommandLineTool document: the fields test_root_keys lists
ToolRoot(ks, base, out, reversed) ==
    LET d == << E(s_id, Str(<<"d">>)),
                E(s_inputs, List([i \in DOMAIN ks |-> Obj(InputAddr(ks[i]))])),
                E(s_outputs, OutputList),
                E(s_requirements, List(<<Obj(5)>>)),
                E(s_hints, None),
                E(s_label, None),
                E(s_doc, None),
                E(s_cwlVersion, Str(<<"v", "1", ".", "0">>)),
                E(s_class_, Str(s_CommandLineTool)),
                E(s_baseCommand, base),
                E(s_arguments, None),
                E(s_stdin, None),
                E(s_stderr, None),
                E(s_stdout, out),
                E(s_successCodes, None),
                E(s_temporaryFailCodes, None),
                E(s_permanentFailCodes, None) >>
    IN  IF reversed THEN Reverse(d) ELSE d

\* the root of a document of another class (Workflow, ExpressionTool)
OtherRoot(ks, class) ==
    << E(s_id, Str(<<"d">>)),
       E(s_inputs, List([i \in DOMAIN ks |-> Obj(InputAddr(ks[i]))])),
       E(s_outputs, OutputList),
       E(s_requirements, List(<<Obj(5)>>)),
       E(s_hints, None),
       E(s_label, None),
       E(s_doc, None),
       E(s_cwlVersion, Str(<<"v", "1", ".", "0">>)),
       E(s_class_, Str(class)),
       E(s_steps, List(<<>>)) >>

InputNodes(ks) ==
    LET used == {ks[i] : i \in DOMAIN ks}
        addrs == {InputAddr(k) : k \in used} \cup
                 {BindingAddr(k) : k \in {u \in used : InputKinds[u].binding # "none"}}
    IN  [a \in addrs |-> IF \E k \in used : a = InputAddr(k)
                         THEN InputNode(CHOOSE k \in used : a = InputAddr(k))
                         ELSE BindingNode(CHOOSE k \in used : a = BindingAddr(k))]

\* a document as a heap of objects
Document(root, ks) == (1 :> root) @@ RequirementNodes @@ InputNodes(ks) @@ OutputNodes

\* the tool documents differ in baseCommand (a str or a list), in stdout
\* (absent or declared) and in the order their fields were declared in
ToolVariants ==
    {[base |-> Str(<<"e", "c", "h", "o">>), out |-> None, reversed |-> FALSE],
     [base |-> List(<<Str(<<"e", "c", "h", "o">>), Str(<<"-", "n">>)>>), out |-> Str(<<"o">>),
      reversed |-> TRUE]}

Documents ==
    {Document(ToolRoot(ks, v.base, v.out, v.reversed), ks) :
        ks \in InputLists, v \in ToolVariants} \cup
    {Document(OtherRoot(<<1>>, c), <<1>>) : c \in {s_Workflow, s_ExpressionTool}}

\* env as cwl_inspector builds it; outdir may also be null
Environment(outdir) == [runtime |-> [outdir |-> outdir, tmpdir |-> None], args |-> <<>>]

Outdirs == {None, Str(<<"/", "d">>)}

\* the files that exist
Files == {<<"/", "d", "/", "o">>}

(* ---------------- the queries ---------------- *)

Dot(seg) == <<".">> \o seg

RECURSIVE IntToStr(_)
\* str(i)
IntToStr(i) ==
    LET d == <<CHOOSE c \in Digits : Ord[c] - Ord["0"] = i % 10>>
    IN  IF i < 10 THEN d ELSE IntToStr(i \div 10) \o d

Selectors ==
    {IntToStr(i) : i \in 0..MaxInputs} \cup
    {Basename(InputKinds[k].id) : k \in DOMAIN InputKinds} \cup {s_nosuch}

Suffixes ==
    {<<>>, Dot(s_label), Dot(s_inputBinding), Dot(s_inputBinding) \o Dot(s_position), Dot(s_nosuch)}

InputPath(sel, suf) == Dot(s_inputs) \o Dot(sel) \o suf

PathQueries ==
    {<<".">>} \cup
    {Dot(f) : f \in {s_cwlVersion, s_class, s_class_, s_baseCommand, s_basecommand,
                     s_stdout, s_inputs, s_outputs, s_requirements, s_nosuch}} \cup
    {Dot(s_cwlVersion) \o Dot(s_nosuch), Dot(s_cwlVersion) \o Dot(<<"0">>),
     Dot(s_baseCommand) \o Dot(<<"0">>), Dot(s_baseCommand) \o Dot(<<"e", "c", "h", "o">>),
     Dot(s_stdout) \o Dot(s_nosuch), Dot(s_requirements) \o Dot(s_nosuch),
     Dot(s_outputs) \o Dot(<<"o", "u", "t">>) \o Dot(s_type)} \cup
    {InputPath(sel, suf) : sel \in Selectors, suf \in Suffixes}

Keys_(p) == s_keys_open \o p \o <<")">>

KeysQueries ==
    {Keys_(p) : p \in {<<".">>, Dot(s_inputs), Dot(s_outputs), Dot(s_requirements),
                       Dot(s_baseCommand), Dot(s_cwlVersion), Dot(s_nosuch),
                       InputPath(<<"0">>, <<>>), InputPath(<<"0">>, Dot(s_inputBinding)),
                       <<"x">>, <<>>}} \cup
    {s_keys_open \o Dot(s_inputs)}

CommandlineQueries ==
    {s_commandline, s_commandline_open \o <<"x", ")">>, s_commandline_open,
     s_commandline \o <<"x">>}

Ls(p) == s_ls_open \o p \o <<")">>

LsQueries ==
    {Ls(Dot(s_outputs) \o Dot(o)) :
        o \in {<<"o", "u", "t">>, <<"f">>, <<"g">>, <<"h">>, <<"k">>, <<"m">>, <<"0">>, s_nosuch}} \cup
    {Ls(Dot(s_outputs) \o Dot(<<"o", "u", "t">>) \o Dot(s_type)),
     s_ls_open \o Dot(s_outputs) \o Dot(<<"o", "u", "t">>),
     s_ls_steps, s_ls_steps \o <<"x">>}

OtherQueries ==
    {<<>>, <<"x">>, <<"k", "e", "y", "s">>, Ls(Dot(s_inputs) \o Dot(<<"i", "n">>)),
     Ls(Dot(s_steps) \o Dot(<<"x">>))}

(* ---------------- the state machine ---------------- *)

\* a parsed document and an environment; no query has been made
Init ==
    /\ heap \in Documents
    /\ env \in {Environment(o) : o \in Outdirs}
    /\ files = Files
    /\ pos = <<>>
    /\ res = NoCall

\* one call inspect(cwl, pos, env)
Query(p) ==
    \E r \in {inspect(heap, p, env, files)} :
        /\ heap' = r.heap
        /\ pos' = p
        /\ res' = r.out
        /\ UNCHANGED <<env, files>>

InspectPath == \E p \in PathQueries : Query(p)

InspectKeys == \E p \in KeysQueries : Query(p)

InspectCommandline == \E p \in CommandlineQueries : Query(p)

InspectLs == \E p \in LsQueries : Query(p)

InspectOther == \E p \in OtherQueries : Query(p)

Next ==
    \/ InspectPath
    \/ InspectKeys
    \/ InspectCommandline
    \/ InspectLs
    \/ InspectOther

Spec == Init /\ [][Next]_vars

(* ---------------- properties ---------------- *)

\* cwl.inputs
Inputs(h) == GetAttr(h[1], s_inputs).items

\* the basename of the id of inputs[i] (i counted from 0)
BasenameAt(h, i) == Basename(GetAttr(h[Inputs(h)[i + 1].a], s_id).s)

IsTool(h) == ClassOf(h) = Str(s_CommandLineTool)

\* two outcomes agree: the same value, or the same exception up to the
\* requested path it carries
SameOutcome(o1, o2) ==
    /\ o1.kind = o2.kind
    /\ o1.val = o2.val
    /\ o1.exc = o2.exc
    /\ o1.msg = o2.msg

\* after a query by index into inputs, the query by the element's id
\* basename, with the same further segments, has the same outcome, and
\* without further segments both succeed
SameByIdentifier(i, suf) ==
    LET byId == inspect_position(heap, InputPath(BasenameAt(heap, i), suf)) IN
    /\ SameOutcome(res, byId.out)
    /\ byId.heap = heap
    /\ suf = <<>> => res.kind = "ok" /\ res.val = Inputs(heap)[i + 1]

\* C1 as stated: index-based and identifier-based access to the same element
\* of inputs are equivalent for every valid index, also with further segments
C1_IndexAndIdEquivalent ==
    \A i \in 0..MaxInputs, suf \in Suffixes :
        (pos = InputPath(IntToStr(i), suf) /\ i < Len(Inputs(heap)))
            => SameByIdentifier(i, suf)

\* C1 amended: index-based and identifier-based access to the same element of
\* inputs are equivalent whenever the element's id basename is not an integer
\* literal and contains no "."
C1_IndexAndIdEquivalentForNames ==
    \A i \in 0..MaxInputs, suf \in Suffixes :
        (/\ pos = InputPath(IntToStr(i), suf)
         /\ i < Len(Inputs(heap))
         /\ ~IsIndex(BasenameAt(heap, i))
         /\ \A j \in 1..Len(BasenameAt(heap, i)) : BasenameAt(heap, i)[j] # ".")
            => SameByIdentifier(i, suf)

C1_Witness ==
    /\ pos = InputPath(<<"1">>, Dot(s_label))
    /\ res = Ok(Str(<<"I">>))
    /\ Len(Inputs(heap)) = 2
    /\ BasenameAt(heap, 1) = <<"i", "n">>
    /\ inspect_position(heap, InputPath(<<"i", "n">>, Dot(s_label))).out = Ok(Str(<<"I">>))

\* C2: a path whose last segment names nothing (no object declares it, no
\* element has it as id basename) fails with 'No such field' carrying the
\* full path, whatever the preceding segments resolved to
C2_UnresolvableIsFieldNotFound ==
    (pos \in PathQueries /\ EndsWith(pos, Dot(s_nosuch))) => res = NoSuchField(pos)

Ascending(items) ==
    \A i \in 1..(Len(items) - 1) : ~StrLess(items[i + 1].s, items[i].s)

StrictlyAscending(items) ==
    \A i \in 1..(Len(items) - 1) : StrLess(items[i].s, items[i + 1].s)

Count(items, v) == Cardinality({i \in 1..Len(items) : items[i] = v})

\* the ids declared by the elements of a list of objects, one per element
DeclaredIds(h, items) ==
    LET having == {i \in 1..Len(items) : HasAttr(h[items[i].a], s_id)} IN
    [ids |-> {GetAttr(h[items[i].a], s_id) : i \in having},
     count |-> [v \in {GetAttr(h[items[i].a], s_id) : i \in having} |->
                   Cardinality({i \in having : GetAttr(h[items[i].a], s_id) = v})]]

KeysPaths ==
    {<<".">>, Dot(s_inputs), Dot(s_outputs), Dot(s_requirements),
     InputPath(<<"0">>, <<>>), InputPath(<<"0">>, Dot(s_inputBinding))}

\* C3: keys(path) is an ascending list of strings: for a list of objects the
\* full ids of the elements that declare one, for an object its field names,
\* each once
C3_KeysSorted ==
    \A p \in KeysPaths :
        LET r == inspect_position(heap, p)
            v == r.out.val
        IN  (pos = Keys_(p) /\ r.out.kind = "ok") =>
              /\ (v.t = "list" /\ \A i \in 1..Len(v.items) : v.items[i].t = "obj") =>
                    /\ res.kind = "ok" /\ res.val.t = "list"
                    /\ \A i \in 1..Len(res.val.items) : res.val.items[i].t = "str"
                    /\ Ascending(res.val.items)
                    /\ {res.val.items[i] : i \in 1..Len(res.val.items)} = DeclaredIds(heap, v.items).ids
                    /\ \A x \in DeclaredIds(heap, v.items).ids :
                          Count(res.val.items, x) = DeclaredIds(heap, v.items).count[x]
              /\ v.t = "obj" =>
                    /\ res.kind = "ok" /\ res.val.t = "list"
                    /\ \A i \in 1..Len(res.val.items) : res.val.items[i].t = "str"
                    /\ StrictlyAscending(res.val.items)
                    /\ {res.val.items[i].s : i \in 1..Len(res.val.items)} =
                          {Keys(heap[v.a])[i] : i \in 1..Len(heap[v.a])}

C3_Witness ==
    /\ pos = Keys_(Dot(s_inputs))
    /\ Len(Inputs(heap)) = 2
    /\ BasenameAt(heap, 0) = <<"i", "n">>
    /\ BasenameAt(heap, 1) = <<"7">>
    /\ res = Ok(List(<<Str(<<"d", "/", "7">>), Str(<<"d", "/", "i", "n">>)>>))

\* the forms of the query grammar
Recognized(p) ==
    \/ StartsWith(p, <<".">>)
    \/ StartsWith(p, s_keys_open \o <<".">>) /\ EndsWith(p, <<")">>)
    \/ p = s_commandline
    \/ StartsWith(p, s_commandline_open) /\ EndsWith(p, <<")">>)
    \/ StartsWith(p, s_ls_open \o <<".">>) /\ EndsWith(p, <<")">>)

\* C4: a query string of no recognized form fails with 'Unknown pos' carrying
\* the string, for every document class
C4_UnrecognizedIsUnknownQuery ==
    (res # NoCall /\ ~Recognized(pos)) => res = Raise("Exception", "Unknown pos", pos)

\* C5: commandline on a CommandLineTool and commandline(<arg>) on a Workflow
\* fail; they never return a value
C5_CommandlineFails ==
    (\/ pos = s_commandline /\ IsTool(heap)
     \/ pos = s_commandline_open \o <<"x", ")">> /\ ClassOf(heap) = Str(s_Workflow))
        => res.kind = "err"

\* C6: ls(.outputs.out) on a CommandLineTool whose output out has type stdout
\* returns the declared .stdout value, or the placeholder filename when none
\* is declared, joined with outdir when outdir is set
C6_LsStdoutFilename ==
    (pos = Ls(Dot(s_outputs) \o Dot(<<"o", "u", "t">>)) /\ IsTool(heap)) =>
        LET declared == GetAttr(heap[1], s_stdout)
            fname == IF declared.t = "str" THEN declared.s ELSE s_randomized_filename
            outdir == env.runtime.outdir
        IN  res = Ok(Str(IF outdir = None THEN fname ELSE PathJoin(outdir.s, fname)))

\* C7: ls of an output whose type is not stdout and that has no outputBinding
\* attribute fails with the 'Not yet supported' exception
C7_NoBindingIsUnsupportedOutput ==
    \A o \in {<<"o", "u", "t">>, <<"f">>, <<"g">>, <<"h">>, <<"k">>, <<"m">>} :
        LET r == inspect_position(heap, Dot(s_outputs) \o Dot(o))
            node == heap[r.out.val.a]
        IN  (/\ pos = Ls(Dot(s_outputs) \o Dot(o))
             /\ IsTool(heap)
             /\ r.out.kind = "ok"
             /\ r.out.val.t = "obj"
             /\ GetAttr(node, s_type) # Str(s_stdout)
             /\ ~HasAttr(node, s_outputBinding))
                => res = Raise("Exception", "Not yet supported for outputs without outputBinding", <<>>)

BindingSuffixes == {Dot(s_inputBinding), Dot(s_inputBinding) \o Dot(s_position)}

\* the step of a query through the inputBinding of a resolved record
DefaultFillStep(sel, suf) ==
    LET r == inspect_position(heap, InputPath(sel, <<>>))
        b == GetAttr(heap[r.out.val.a], s_inputBinding).a
        again == inspect_position(heap', pos')
    IN  (/\ pos' = InputPath(sel, suf)
         /\ r.out.kind = "ok"
         /\ r.out.val.t = "obj"
         /\ HasAttr(heap[r.out.val.a], s_inputBinding)
         /\ GetAttr(heap[r.out.val.a], s_inputBinding).t = "obj")
          => /\ IF HasAttr(heap[b], s_position)
                THEN heap'[b] = heap[b]
                ELSE heap'[b] = Append(heap[b], E(s_position, Num(0)))
             /\ suf = Dot(s_inputBinding) => res' = Ok(Obj(b))
             /\ suf # Dot(s_inputBinding) => res' = Ok(GetAttr(heap'[b], s_position))
             /\ again.out = res'
             /\ again.heap = heap'

\* C8: resolving through an inputBinding that lacks a position sets position
\* to 0 on it, leaves an explicit position alone, and resolving the same path
\* again returns the same node with the same position
C8_DefaultPositionFill ==
    [][\A sel \in Selectors, suf \in BindingSuffixes : DefaultFillStep(sel, suf)]_vars

C8_Witness ==
    /\ pos = InputPath(<<"0">>, Dot(s_inputBinding))
    /\ BasenameAt(heap, 0) = <<"i", "n">>
    /\ res = Ok(Obj(BindingAddr(1)))
    /\ GetAttr(heap[BindingAddr(1)], s_position) = Num(0)

\* C9: .baseCommand resolves to a list: a scalar string is wrapped in a
\* one-element list, a list is returned unchanged
C9_BaseCommandIsList ==
    (pos = Dot(s_baseCommand) /\ IsTool(heap)) =>
        LET v == GetAttr(heap[1], s_baseCommand) IN
        res = Ok(IF v.t = "str" THEN List(<<v>>) ELSE v)

\* a is the inputBinding of some object
IsInputBinding(h, a) ==
    \E n \in DOMAIN h : HasAttr(h[n], s_inputBinding) /\ GetAttr(h[n], s_inputBinding) = Obj(a)

Contains(s, sub) == \E i \in 1..Len(s) : SubSeq(s, i, i + Len(sub) - 1) = sub

\* C10: a query leaves the environment alone and changes the document only by
\* appending position = 0 to an inputBinding that had no position and was
\* visited through an inputBinding segment
C10_QueriesOnlyFillDefaults ==
    [][/\ env' = env
       /\ files' = files
       /\ DOMAIN heap' = DOMAIN heap
       /\ \A a \in DOMAIN heap :
            \/ heap'[a] = heap[a]
            \/ /\ IsInputBinding(heap, a)
               /\ ~HasAttr(heap[a], s_position)
               /\ heap'[a] = Append(heap[a], E(s_position, Num(0)))
               /\ Contains(pos', Dot(s_inputBinding))]_vars

C10_Witness ==
    /\ pos = Keys_(InputPath(<<"0">>, Dot(s_inputBinding)))
    /\ BasenameAt(heap, 0) = <<"i", "n">>
    /\ res = Ok(List(<<Str(s_position), Str(s_prefix)>>))
    /\ heap[BindingAddr(1)] = <<E(s_prefix, Str(<<"-", "x">>)), E(s_position, Num(0))>>

====
